---- MODULE Spec2Model ----
(***************************************************************************)
(* Model of origamid/tasks.py: the three operations on one demo record     *)
(*   update_demo_status            (reconcile)                             *)
(*   remove_demo_instance_if_exist (reclaim)                               *)
(*   deploy_demo                   (deploy)                                *)
(* together with the collaborators they call: the Demos table, the docker  *)
(* daemon (containers and image builds), the port allocator and the build  *)
(* log files.  One demo_id is modelled.                                    *)
(*                                                                         *)
(* Optional values (Python None) are encoded as sequences: None is << >>   *)
(* and a present value v is << v >>.  Text is a sequence of one-character  *)
(* strings, so that strip(), re.match and the slice [7:] are computed.     *)
(***************************************************************************)
EXTENDS Integers, Sequences, FiniteSets, TLC

VARIABLES
    db,          \* the persisted Demos row of the demo, or NoDemo
    containers,  \* the daemon's containers: container id -> status
    dockerUp,    \* whether the docker daemon answers API calls
    logs,        \* the build log files: log id -> the response written
    nextCid,     \* the next container id the daemon hands out
    nextLog,     \* the next uuid4 for a log file
    dpc,         \* deploy_demo: position in the task
    ddemo,       \* deploy_demo: the local `demo` object
    dpre,        \* deploy_demo: the row as it was when the task started
    dcalls,      \* deploy_demo: the collaborator calls made by this run
    rpc,         \* update_demo_status: position of its caller
    rdemo,       \* update_demo_status: the `demo` object it is given
    last         \* the operation that completed last, and how

vars == <<db, containers, dockerUp, logs, nextCid, nextLog,
          dpc, ddemo, dpre, dcalls, rpc, rdemo, last>>

-----------------------------------------------------------------------------
(* Bounds of the model *)

MaxContainers == 3
MaxLogs == 2
NumPorts == 2
MaxConcContainers == 2

-----------------------------------------------------------------------------
(* Values *)

None == << >>
Some(v) == << v >>

NoDemo == [none |-> TRUE]

Ports == 1 .. NumPorts

\* The statuses the tasks themselves write.
TaskStatuses == {"empty", "deploying", "redeploying", "running", "error"}

\* Statuses the daemon reports for a container (container.status).
ContainerStatuses == {"created", "running", "paused", "exited"}

\* Demos(demo_id=demo_id, log_id=demo_logs_uid, status='deploying')
NewDemo(logId) ==
    [status |-> "deploying", container_id |-> None, image_id |-> None,
     port |-> None, log_id |-> logId]

-----------------------------------------------------------------------------
(* Text *)

Whitespace == {" ", "\n", "\t"}

Lower(c) ==
    CASE c = "S" -> "s" [] c = "U" -> "u" [] c = "C" -> "c" [] c = "E" -> "e"
      [] c = "F" -> "f" [] c = "L" -> "l" [] c = "Y" -> "y" [] c = "B" -> "b"
      [] c = "I" -> "i" [] c = "T" -> "t" [] OTHER -> c

RECURSIVE LStrip(_)
LStrip(s) ==
    IF s # << >> /\ Head(s) \in Whitespace THEN LStrip(Tail(s)) ELSE s

RECURSIVE RStrip(_)
RStrip(s) ==
    IF s # << >> /\ s[Len(s)] \in Whitespace
    THEN RStrip(SubSeq(s, 1, Len(s) - 1))
    ELSE s

\* str.strip()
Strip(s) == RStrip(LStrip(s))

\* The literal part of r'Successfully built (.*)', lower-cased for re.I.
SuccessPattern ==
    <<"s","u","c","c","e","s","s","f","u","l","l","y"," ",
      "b","u","i","l","t"," ">>

\* re.match(r'Successfully built (.*)', s, re.M | re.I) is not None
Matches(s) ==
    /\ Len(s) >= Len(SuccessPattern)
    /\ \A i \in 1 .. Len(SuccessPattern) : Lower(s[i]) = SuccessPattern[i]

\* Mutant of DropPrefix: x[6:], which keeps the colon.
DropPrefixKeepsColon(s) == SubSeq(s, 7, Len(s))

\* x[7:]
DropPrefix(s) == SubSeq(s, 8, Len(s))

-----------------------------------------------------------------------------
(* Build logs: the decoded lines cli.build can stream *)

Sha256Prefix == <<"s","h","a","2","5","6",":">>
Digest == <<"d","e","a","d","b","e","e","f","0","0">>
BareDigest == Digest
SuccessLine ==
    <<"S","u","c","c","e","s","s","f","u","l","l","y"," ",
      "b","u","i","l","t"," ","a","b","1","2","c","d","3","4","\n">>
UpperSuccessLine ==
    <<"S","U","C","C","E","S","S","F","U","L","L","Y"," ",
      "B","U","I","L","T"," ","a","b","1","2","c","d","3","4","\n">>
StepLine == <<"S","t","e","p"," ","1","\n">>

StepRec == [stream |-> StepLine]
AuxRec == [aux |-> [ID |-> Sha256Prefix \o Digest]]
BareAuxRec == [aux |-> [ID |-> BareDigest]]
NoIdAuxRec == [aux |-> [Size |-> <<"9">>]]
SuccessRec == [stream |-> SuccessLine]
ErrorRec == [error |-> <<"e","r","r">>]

GoodLog == <<StepRec, AuxRec, SuccessRec>>
UpperLog == <<AuxRec, [stream |-> UpperSuccessLine]>>
EmptyLog == << >>
ErrorLog == <<StepRec, ErrorRec>>
StepLog == <<StepRec, StepRec>>
LoneLog == <<SuccessRec>>
NoAuxLog == <<StepRec, SuccessRec>>
NoIdLog == <<NoIdAuxRec, SuccessRec>>
BareIdLog == <<BareAuxRec, SuccessRec>>

BuildLogs ==
    {GoodLog, UpperLog, EmptyLog, ErrorLog, StepLog, LoneLog, NoAuxLog,
     NoIdLog, BareIdLog}

-----------------------------------------------------------------------------
(* deploy_demo, lines 164-177: the image id read from the build response *)

Final(response) == response[Len(response)]
Preceding(response) == response[Len(response) - 1]

\* Line 164 is outside the inner try: IndexError and KeyError leave the task.
\* Lines 168-177: any exception of the inner try becomes BuildError.
ParseBuild(response) ==
    IF Len(response) = 0
    THEN [kind |-> "IndexError", image_id |-> None]
    ELSE IF "stream" \notin DOMAIN Final(response)
    THEN [kind |-> "KeyError", image_id |-> None]
    ELSE IF ~Matches(Strip(Final(response).stream))
    THEN [kind |-> "BuildError", image_id |-> None]
    ELSE IF Len(response) < 2
    THEN [kind |-> "BuildError", image_id |-> None]
    ELSE IF "aux" \notin DOMAIN Preceding(response)
    THEN [kind |-> "BuildError", image_id |-> None]
    ELSE IF "ID" \notin DOMAIN Preceding(response).aux
    THEN [kind |-> "BuildError", image_id |-> None]
    ELSE [kind |-> "image",
          image_id |-> Some(DropPrefix(Preceding(response).aux.ID))]

-----------------------------------------------------------------------------
(* The docker daemon *)

Without(cs, c) == [x \in DOMAIN cs \ {c} |-> cs[x]]

\* docker_client.containers.get(container_id)
GetContainer(cs, up, cid) ==
    IF ~up THEN "APIError"
    ELSE IF cid[1] \in DOMAIN cs THEN "found"
    ELSE "NotFound"

\* After container.stop() the container has exited; it was started with
\* remove=True, so the daemon may already have removed it.
AfterStop(cs, c) == {[cs EXCEPT ![c].status = "exited"], Without(cs, c)}

-----------------------------------------------------------------------------
(* remove_demo_instance_if_exist *)

\* if demo and demo.container_id
HasInstance(row) == row # NoDemo /\ row.container_id # None

\* Mutant of ReclaimedDemo: the reset also drops the port.
ReclaimedDemoClearsPort(demo, status) ==
    [demo EXCEPT !.status = status, !.container_id = None, !.image_id = None,
                 !.port = None]

\* Mutant of ReclaimedDemo: the image_id survives the reset.
ReclaimedDemoKeepsImage(demo, status) ==
    [demo EXCEPT !.status = status, !.container_id = None]

\* lines 103-105
ReclaimedDemo(demo, status) ==
    [demo EXCEPT !.status = status, !.container_id = None, !.image_id = None]

\* Mutant of ReclaimFailedDemo: the failure path also forgets the container.
ReclaimFailedDemoClears(demo) ==
    [demo EXCEPT !.status = "error", !.container_id = None]

\* line 114
ReclaimFailedDemo(demo) == [demo EXCEPT !.status = "error"]

\* except APIError: status = 'error', save, raise
OnReclaimAPIError(demo, cs, up) ==
    [ret |-> "raised", row |-> ReclaimFailedDemo(demo), saved |-> TRUE,
     cs |-> cs, up |-> up]

\* Mutant of OnReclaimNotFound: NotFound is an APIError, and is handled as one.
OnReclaimNotFoundRaises(demo, cs, up) ==
    [ret |-> "raised", row |-> [demo EXCEPT !.status = "error"],
     saved |-> TRUE, cs |-> cs, up |-> up]

\* Mutant of OnReclaimNotFound: the missing container counts as reclaimed, and
\* the reset is saved.
OnReclaimNotFoundSaves(demo, cs, up) ==
    [ret |-> "absent",
     row |-> [demo EXCEPT !.status = "empty", !.container_id = None],
     saved |-> TRUE, cs |-> cs, up |-> up]

\* except NotFound: log only, fall through to return None
OnReclaimNotFound(demo, cs, up) ==
    [ret |-> "absent", row |-> demo, saved |-> FALSE, cs |-> cs, up |-> up]

\* The outcomes of one call: what it returns, the row afterwards, whether it
\* saved, and the daemon afterwards.  A call that starts with the daemon up
\* can lose it before stop(), or after stop() (before the second get or
\* before remove()).
RemoveDemoInstance(row, status, cs, up) ==
    IF ~HasInstance(row)
    THEN {[ret |-> "absent", row |-> row, saved |-> FALSE,
           cs |-> cs, up |-> up]}
    ELSE LET c == row.container_id[1]
             got == GetContainer(cs, up, row.container_id)
         IN  IF got = "APIError" THEN {OnReclaimAPIError(row, cs, up)}
             ELSE IF got = "NotFound" THEN {OnReclaimNotFound(row, cs, up)}
             ELSE {OnReclaimAPIError(row, cs, FALSE)}
                  \cup {OnReclaimAPIError(row, after, FALSE) :
                            after \in AfterStop(cs, c)}
                  \cup {[ret |-> "demo", row |-> ReclaimedDemo(row, status),
                         saved |-> TRUE, cs |-> Without(cs, c), up |-> up]}

-----------------------------------------------------------------------------
(* update_demo_status *)

\* line 41
FoundDemo(demo, cstatus) == [demo EXCEPT !.status = cstatus]

\* Mutant of NotFoundDemo: the container_id is kept.
NotFoundDemoKeepsId(demo) == [demo EXCEPT !.status = "empty"]

\* lines 48-49
NotFoundDemo(demo) == [demo EXCEPT !.container_id = None, !.status = "empty"]

\* except NotFound: reset and save
OnReconcileNotFound(demo) ==
    [ret |-> "notfound", demo |-> NotFoundDemo(demo), saved |-> TRUE]

\* Mutant of OnReconcileAPIError: the error is handled like NotFound.
OnReconcileAPIErrorResets(demo) ==
    [ret |-> "notfound",
     demo |-> [demo EXCEPT !.container_id = None, !.status = "empty"],
     saved |-> TRUE]

\* except APIError: raise OrigamiDockerConnectionError
OnReconcileAPIError(demo) ==
    [ret |-> "raised", demo |-> demo, saved |-> FALSE]

UpdateDemoStatus(demo, cs, up) ==
    IF demo.container_id = None
    THEN [ret |-> "noop", demo |-> demo, saved |-> FALSE]
    ELSE LET got == GetContainer(cs, up, demo.container_id)
         IN  IF got = "APIError" THEN OnReconcileAPIError(demo)
             ELSE IF got = "NotFound" THEN OnReconcileNotFound(demo)
             ELSE [ret |-> "found",
                   demo |-> FoundDemo(demo, cs[demo.container_id[1]].status),
                   saved |-> TRUE]

-----------------------------------------------------------------------------
(* deploy_demo: the changes to the local demo object *)

\* Mutant of NeedsPort: a port is allocated on every launch.
NeedsPortAlways(demo) == TRUE

\* if not demo.port
NeedsPort(demo) == demo.port = None

\* line 184
BuiltDemo(demo, imageId) == [demo EXCEPT !.image_id = imageId]

\* line 190
PortedDemo(demo, p) == [demo EXCEPT !.port = Some(p)]

\* Mutant of LaunchedDemo: the id of the new container is not recorded.
LaunchedDemoDropsId(demo, cid) == [demo EXCEPT !.status = "running"]

\* lines 201-202
LaunchedDemo(demo, cid) ==
    [demo EXCEPT !.container_id = Some(cid), !.status = "running"]

\* Mutant of ErrorDemo: the failure rolls the image back.
ErrorDemoRollsBack(demo) ==
    [demo EXCEPT !.status = "error", !.image_id = None]

\* Mutant of ErrorDemo: another word for the failure.
ErrorDemoFailed(demo) == [demo EXCEPT !.status = "failed"]

\* lines 207 and 211
ErrorDemo(demo) == [demo EXCEPT !.status = "error"]

-----------------------------------------------------------------------------
(* State *)

NoOp == [op |-> "none", outcome |-> "none", saved |-> FALSE, rep |-> FALSE]
Done(op, outcome, saved) ==
    [op |-> op, outcome |-> outcome, saved |-> saved, rep |-> FALSE]

Init ==
    /\ db = NoDemo
    /\ containers = << >>
    /\ dockerUp = TRUE
    /\ logs = << >>
    /\ nextCid = 1
    /\ nextLog = 1
    /\ dpc = "idle"
    /\ ddemo = NoDemo
    /\ dpre = NoDemo
    /\ dcalls = {}
    /\ rpc = "idle"
    /\ rdemo = NoDemo
    /\ last = NoOp

\* No task is running: the operations on the demo run one after another.
Idle == dpc = "idle" /\ rpc = "idle"

\* The frame of a task that has returned is gone when the next one starts.
NoDeployFrame == ddemo' = NoDemo /\ dpre' = NoDemo /\ dcalls' = {}

-----------------------------------------------------------------------------
(* The environment: the daemon and its containers change on their own *)

DaemonDown ==
    /\ dockerUp
    /\ dockerUp' = FALSE
    /\ last' = Done("env", "down", FALSE)
    /\ UNCHANGED <<db, containers, logs, nextCid, nextLog,
                   dpc, ddemo, dpre, dcalls, rpc, rdemo>>

DaemonUp ==
    /\ ~dockerUp
    /\ dockerUp' = TRUE
    /\ last' = Done("env", "up", FALSE)
    /\ UNCHANGED <<db, containers, logs, nextCid, nextLog,
                   dpc, ddemo, dpre, dcalls, rpc, rdemo>>

\* A container is paused, resumed, exits, ...
ContainerChange ==
    /\ \E c \in DOMAIN containers, s \in ContainerStatuses \ {"created"} :
          /\ s # containers[c].status
          /\ containers' = [containers EXCEPT ![c].status = s]
    /\ last' = Done("env", "status", FALSE)
    /\ UNCHANGED <<db, dockerUp, logs, nextCid, nextLog,
                   dpc, ddemo, dpre, dcalls, rpc, rdemo>>

\* A container is removed: by the daemon once it has exited (remove=True),
\* or by an operator.
ContainerGone ==
    /\ \E c \in DOMAIN containers : containers' = Without(containers, c)
    /\ last' = Done("env", "gone", FALSE)
    /\ UNCHANGED <<db, dockerUp, logs, nextCid, nextLog,
                   dpc, ddemo, dpre, dcalls, rpc, rdemo>>

-----------------------------------------------------------------------------
(* update_demo_status(demo), called with the row its caller loaded *)

\* The caller reads the row and passes it to update_demo_status.
LoadForReconcile ==
    /\ rpc = "idle"
    /\ db # NoDemo
    /\ rdemo' = db
    /\ rpc' = "loaded"
    /\ last' = Done("reconcile", "loaded", FALSE)
    /\ UNCHANGED <<db, containers, dockerUp, logs, nextCid, nextLog, dpc>>

ReconcileLoad ==
    /\ Idle
    /\ LoadForReconcile
    /\ NoDeployFrame

ReconcileUpdate ==
    /\ rpc = "loaded"
    /\ LET r == UpdateDemoStatus(rdemo, containers, dockerUp)
       IN  /\ rdemo' = r.demo
           /\ db' = IF r.saved THEN r.demo ELSE db
           /\ last' = Done("reconcile", r.ret, r.saved)
    /\ rpc' = "idle"
    /\ UNCHANGED <<containers, dockerUp, logs, nextCid, nextLog,
                   dpc, ddemo, dpre, dcalls>>

-----------------------------------------------------------------------------
(* remove_demo_instance_if_exist(demo_id), status defaulted to 'empty' *)

Reclaim ==
    /\ Idle
    /\ \E r \in RemoveDemoInstance(db, "empty", containers, dockerUp) :
          /\ db' = r.row
          /\ containers' = r.cs
          /\ dockerUp' = r.up
          /\ last' = [op |-> "reclaim", outcome |-> r.ret, saved |-> r.saved,
                      rep |-> last.op = "reclaim"]
    /\ NoDeployFrame
    /\ rdemo' = NoDemo
    /\ UNCHANGED <<logs, nextCid, nextLog, dpc, rpc>>

-----------------------------------------------------------------------------
(* deploy_demo(demo_id, demo_dir) *)

\* lines 131-137: reclaim with 'redeploying'; a connection error ends the task
ReclaimForDeploy ==
    /\ dpc = "idle"
    /\ db # NoDemo \/ nextLog <= MaxLogs
    /\ dpre' = db
    /\ dcalls' = {}
    /\ ddemo' = NoDemo
    /\ \E r \in RemoveDemoInstance(db, "redeploying", containers, dockerUp) :
          /\ db' = r.row
          /\ containers' = r.cs
          /\ dockerUp' = r.up
          /\ IF r.ret = "raised"
             THEN /\ dpc' = "idle"
                  /\ last' = Done("deploy", "aborted", r.saved)
             ELSE /\ dpc' = "load"
                  /\ last' = Done("deploy", "started", r.saved)
    /\ UNCHANGED <<logs, nextCid, nextLog, rpc>>

DeployStart ==
    /\ Idle
    /\ nextCid <= MaxContainers
    /\ ReclaimForDeploy
    /\ rdemo' = NoDemo

\* lines 139-142
DeployLoad ==
    /\ dpc = "load"
    /\ IF db = NoDemo
       THEN /\ ddemo' = NewDemo(nextLog)
            /\ nextLog' = nextLog + 1
       ELSE /\ ddemo' = db
            /\ UNCHANGED nextLog
    /\ dpc' = "build"
    /\ last' = Done("deploy", "loaded", FALSE)
    /\ UNCHANGED <<db, containers, dockerUp, logs, nextCid,
                   dpre, dcalls, rpc, rdemo>>

\* lines 152-156: cli.build raises APIError
DeployBuildFails ==
    /\ dpc = "build"
    /\ ~dockerUp
    /\ dcalls' = dcalls \cup {"build"}
    /\ ddemo' = ErrorDemo(ddemo)
    /\ dpc' = "save"
    /\ last' = Done("deploy", "APIError", FALSE)
    /\ UNCHANGED <<db, containers, dockerUp, logs, nextCid, nextLog,
                   dpre, rpc, rdemo>>

\* Mutant of WriteLog: the final record is not written.
WriteLogDropsFinal(files, logId, response) ==
    (logId :> SubSeq(response, 1, Len(response) - 1)) @@ files

\* lines 159-162: json.dump(response) into the file named by the log_id
WriteLog(files, logId, response) == (logId :> response) @@ files

\* lines 152-184: the build streams a response, the response is written to the
\* log file, and the image id is read from it
DeployBuild ==
    /\ dpc = "build"
    /\ dockerUp
    /\ \E response \in BuildLogs :
          LET parsed == ParseBuild(response)
          IN  /\ logs' = WriteLog(logs, ddemo.log_id, response)
              /\ dcalls' = dcalls \cup {"build", "log"}
              /\ CASE parsed.kind = "image" ->
                        /\ ddemo' = BuiltDemo(ddemo, parsed.image_id)
                        /\ dpc' = "launch"
                        /\ last' = Done("deploy", "built", FALSE)
                   [] parsed.kind = "BuildError" ->
                        /\ ddemo' = ErrorDemo(ddemo)
                        /\ dpc' = "save"
                        /\ last' = Done("deploy", "BuildError", FALSE)
                   [] OTHER ->
                        /\ ddemo' = ddemo
                        /\ dpc' = "idle"
                        /\ last' = Done("deploy", "crashed", FALSE)
    /\ UNCHANGED <<db, containers, dockerUp, nextCid, nextLog,
                   dpre, rpc, rdemo>>

\* lines 193-198: the container the daemon starts, and the image it runs
NewContainer(cid, imageId) == cid :> [status |-> "running", image |-> imageId]

\* lines 192-202: containers.run with the demo's port, then the id it returns
RunContainer(demo, called) ==
    /\ dcalls' = dcalls \cup called
    /\ IF dockerUp
       THEN /\ containers' = NewContainer(nextCid, demo.image_id[1])
                             @@ containers
            /\ nextCid' = nextCid + 1
            /\ ddemo' = LaunchedDemo(demo, nextCid)
            /\ last' = Done("deploy", "launched", FALSE)
       ELSE /\ ddemo' = ErrorDemo(demo)
            /\ last' = Done("deploy", "APIError", FALSE)
            /\ UNCHANGED <<containers, nextCid>>

\* lines 187-202
DeployLaunch ==
    /\ dpc = "launch"
    /\ IF NeedsPort(ddemo)
       THEN \E p \in Ports : RunContainer(PortedDemo(ddemo, p), {"alloc", "run"})
       ELSE RunContainer(ddemo, {"run"})
    /\ dpc' = "save"
    /\ UNCHANGED <<db, dockerUp, logs, nextLog, dpre, rpc, rdemo>>

\* line 213
DeploySave ==
    /\ dpc = "save"
    /\ db' = ddemo
    /\ dpc' = "idle"
    /\ last' = Done("deploy", "returned", TRUE)
    /\ UNCHANGED <<containers, dockerUp, logs, nextCid, nextLog,
                   ddemo, dpre, dcalls, rpc, rdemo>>

-----------------------------------------------------------------------------

Next ==
    \/ DaemonDown
    \/ DaemonUp
    \/ ContainerChange
    \/ ContainerGone
    \/ ReconcileLoad
    \/ ReconcileUpdate
    \/ Reclaim
    \/ DeployStart
    \/ DeployLoad
    \/ DeployBuildFails
    \/ DeployBuild
    \/ DeployLaunch
    \/ DeploySave

Spec == Init /\ [][Next]_vars

-----------------------------------------------------------------------------
(* deploy_demo and update_demo_status as independent tasks on one demo: a
   reconcile can be between its load and its update while a deploy runs, and
   the other way round.  Both save the whole object they hold. *)

ConcReconcileLoad ==
    /\ LoadForReconcile
    /\ UNCHANGED <<ddemo, dpre, dcalls>>

ConcDeployStart ==
    /\ nextCid <= MaxConcContainers
    /\ ReclaimForDeploy
    /\ UNCHANGED rdemo

ConcNext ==
    \/ DaemonDown
    \/ DaemonUp
    \/ ContainerChange
    \/ ContainerGone
    \/ ConcReconcileLoad
    \/ ReconcileUpdate
    \/ ConcDeployStart
    \/ DeployLoad
    \/ DeployBuildFails
    \/ DeployBuild
    \/ DeployLaunch
    \/ DeploySave

ConcSpec == Init /\ [][ConcNext]_vars

-----------------------------------------------------------------------------
(* Properties *)

RowContainer(row) == IF row = NoDemo THEN None ELSE row.container_id
RowImage(row) == IF row = NoDemo THEN None ELSE row.image_id

\* The deploy that completed last wrote a build log; this is the response.
BuildWritten == last.op = "deploy" /\ "log" \in dcalls
WrittenResponse == logs[ddemo.log_id]

\* C1: when deploy_demo has got past the reclaim and has returned or
\* terminated, the persisted status is 'running' or 'error', whatever build
\* log the daemon streamed (an empty one and one whose final record has no
\* 'stream' included).
DeployEndsRunningOrError ==
    (/\ last.op = "deploy"
     /\ last.outcome \in {"returned", "crashed"}
     /\ db # NoDemo)
        => db.status \in {"running", "error"}

\* C2: a port, once persisted, never changes; the allocator is called only by
\* a deploy whose row had no port when it started, and a deploy that reaches
\* the launch holds the persisted port in its demo object.
PortNeverChanges ==
    [][/\ (db # NoDemo /\ db.port # None)
            => (db' # NoDemo /\ db'.port = db.port)
       /\ ("alloc" \in dcalls' /\ "alloc" \notin dcalls)
            => (dpre = NoDemo \/ dpre.port = None)
       /\ (dpc' \in {"launch", "save"} /\ db' # NoDemo /\ db'.port # None)
            => ddemo'.port = db'.port
      ]_vars

\* C2 witness: a later deploy has run the container on the port the row
\* already had, without calling the allocator.
RedeployKeptPort ==
    /\ dpc = "save"
    /\ dcalls = {"build", "log", "run"}
    /\ dpre # NoDemo
    /\ dpre.port # None
    /\ ddemo.port = dpre.port
    /\ ddemo.status = "running"

\* C3: a reclaim that directly follows a reclaim (nothing else happened in
\* between) leaves the persisted row as the first one left it, and when the
\* container is gone (the row names none, or the daemon answers not found) it
\* returns None instead of raising.
ReclaimIdempotent ==
    [][(last.op = "reclaim" /\ last'.op = "reclaim")
          => /\ db' = db
             /\ (\/ ~HasInstance(db)
                 \/ GetContainer(containers, dockerUp, db.container_id)
                        = "NotFound")
                    => last'.outcome = "absent"
      ]_vars

\* C3 witness: a second reclaim in a row returned None on the row the first
\* one had reset.
ReclaimedTwice ==
    /\ last.op = "reclaim"
    /\ last.rep
    /\ last.outcome = "absent"
    /\ db # NoDemo
    /\ db.status = "empty"
    /\ db.container_id = None

\* C4: when update_demo_status asks the daemon for the demo's container and
\* the daemon has none with that id, the row is saved with no container_id
\* and status 'empty', and nothing is raised.
ReconcileNotFoundResets ==
    [][(/\ rpc = "loaded"
        /\ rpc' = "idle"
        /\ rdemo.container_id # None
        /\ GetContainer(containers, dockerUp, rdemo.container_id) = "NotFound")
          => /\ db' # NoDemo
             /\ db'.container_id = None
             /\ db'.status = "empty"
             /\ last'.outcome # "raised"
      ]_vars

\* C4 witness: update_demo_status found no container and reset the row.
ReconciledMissing ==
    /\ last.op = "reconcile"
    /\ last.outcome = "notfound"
    /\ db.status = "empty"
    /\ db.container_id = None

\* The deploy that has just returned was a successful redeploy of a demo
\* whose row said running, with a container and a port.
RedeployedRunning ==
    /\ last = Done("deploy", "returned", TRUE)
    /\ "run" \in dcalls
    /\ ddemo.status = "running"
    /\ dpre # NoDemo
    /\ dpre.status = "running"
    /\ dpre.container_id # None
    /\ dpre.port # None

\* C5: a successful deploy of a demo that was running with container C1 on
\* port P has no C1 left in the daemon from the load on (so before the build
\* and the run), and ends with status 'running', a new image, a container_id
\* other than C1, and port P.
RedeployReplacesContainer ==
    /\ (dpc # "idle" /\ dpre # NoDemo /\ dpre.container_id # None)
          => dpre.container_id[1] \notin DOMAIN containers
    /\ RedeployedRunning
          => /\ db.status = "running"
             /\ db.container_id \notin {None, dpre.container_id}
             /\ dpre.container_id[1] \notin DOMAIN containers
             /\ "build" \in dcalls
             /\ db.image_id # None
             /\ db.port = dpre.port

\* C5 witness: such a redeploy has returned.
RedeployReturned ==
    /\ RedeployedRunning
    /\ db.status = "running"
    /\ db.container_id # dpre.container_id

\* The final record of the response is malformed: it has no 'stream', or its
\* message is not the success message.
MalformedFinal(response) ==
    /\ Len(response) > 0
    /\ \/ "stream" \notin DOMAIN Final(response)
       \/ ~Matches(Strip(Final(response).stream))

\* C6: when the build yields a malformed final record, the deploy ends with
\* status 'error', the response is in the log file of the demo's log_id, and
\* container_id and image_id are what they were before the deploy started.
MalformedBuildKeepsIds ==
    (/\ BuildWritten
     /\ last.outcome \in {"returned", "crashed"}
     /\ MalformedFinal(WrittenResponse))
        => /\ db # NoDemo
           /\ db.status = "error"
           /\ db.log_id \in DOMAIN logs
           /\ logs[db.log_id] = WrittenResponse
           /\ db.container_id = RowContainer(dpre)
           /\ db.image_id = RowImage(dpre)

HasPrefix(s, prefix) ==
    /\ Len(s) >= Len(prefix)
    /\ SubSeq(s, 1, Len(prefix)) = prefix

\* The cases in which the build must fail: the final message is not the
\* success message, there is no preceding record or it has no aux ID, or the
\* ID does not start with 'sha256:'.
MustFailBuild(response) ==
    /\ Len(response) > 0
    /\ "stream" \in DOMAIN Final(response)
    /\ \/ ~Matches(Strip(Final(response).stream))
       \/ Len(response) < 2
       \/ "aux" \notin DOMAIN Preceding(response)
       \/ "ID" \notin DOMAIN Preceding(response).aux
       \/ ~HasPrefix(Preceding(response).aux.ID, Sha256Prefix)

\* C7: in each of those cases the deploy records no image id, starts no
\* container, and ends with status 'error'.
BadBuildIsBuildError ==
    (BuildWritten /\ MustFailBuild(WrittenResponse))
        => /\ "run" \notin dcalls
           /\ ddemo.image_id \in {None, RowImage(dpre)}
           /\ last.outcome = "returned" => db.status = "error"

\* C8: a deploy whose reclaim meets a daemon that is down is aborted; an
\* aborted deploy has built nothing, run nothing, allocated nothing and
\* written no log, and has changed the row in its status only, to 'error';
\* a reclaim that raises has saved status 'error' and nothing else.
ReclaimFailureAborts ==
    [][/\ (Idle /\ last'.op = "deploy" /\ HasInstance(db) /\ ~dockerUp)
            => last'.outcome = "aborted"
       /\ (last'.op = "deploy" /\ last'.outcome = "aborted")
            => /\ HasInstance(db)
               /\ dpc' = "idle"
               /\ dcalls' = {}
               /\ logs' = logs
               /\ nextCid' = nextCid
               /\ DOMAIN containers' \subseteq DOMAIN containers
               /\ db' = [db EXCEPT !.status = "error"]
       /\ (last'.op = "reclaim" /\ last'.outcome = "raised")
            => /\ HasInstance(db)
               /\ last'.saved
               /\ db' = [db EXCEPT !.status = "error"]
      ]_vars

\* C8 witness: a deploy of a running demo was aborted by its reclaim.
DeployAborted ==
    /\ last.op = "deploy"
    /\ last.outcome = "aborted"
    /\ dpre.status = "running"
    /\ dpre.image_id # None
    /\ db = [dpre EXCEPT !.status = "error"]

\* C9: when the daemon is down, update_demo_status on a demo with a
\* container_id raises, saves nothing, and leaves its demo object and the
\* row as they were.
ReconcileFailureKeepsRow ==
    [][(/\ rpc = "loaded"
        /\ rpc' = "idle"
        /\ rdemo.container_id # None
        /\ ~dockerUp)
          => /\ last'.outcome = "raised"
             /\ ~last'.saved
             /\ rdemo' = rdemo
             /\ db' = db
      ]_vars

\* C9 witness: update_demo_status raised on a running demo.
ReconcileRaised ==
    /\ last.op = "reconcile"
    /\ last.outcome = "raised"
    /\ rdemo = db
    /\ db.status = "running"
    /\ db.container_id # None

\* C10: the persisted status is always one of 'empty', 'deploying',
\* 'redeploying', 'running', 'error'.
StatusIsTaskStatus == db # NoDemo => db.status \in TaskStatuses

\* C10, amended: the persisted status is one of those five or a container
\* status the daemon reported; a status outside the five is only ever
\* written by update_demo_status when it finds the container.
StatusIsTaskOrContainerStatus ==
    [][db' # NoDemo
          => \/ db'.status \in TaskStatuses
             \/ /\ db'.status \in ContainerStatuses
                /\ \/ db' = db
                   \/ last'.op = "reconcile" /\ last'.outcome = "found"
      ]_vars

\* C10 witness: update_demo_status copied the status of a paused container.
ReconcileCopiedStatus ==
    /\ last.op = "reconcile"
    /\ last.outcome = "found"
    /\ db.status = "paused"

\* The deploy in flight has started a container and has not yet saved.
LaunchUnsaved == dpc = "save" /\ "run" \in dcalls /\ ddemo.status = "running"

\* C11 (as stated): in every reachable state, any container the daemon holds
\* is the one named by the persisted container_id.
OwnedContainerIsRecorded ==
    \A c \in DOMAIN containers : RowContainer(db) = Some(c)

\* C11 (amended): when deploy_demo asks the daemon to run a container, no
\* container started earlier exists; the daemon never holds more than one
\* container; and the one it holds is named by the persisted container_id,
\* except between the run of line 193 and the save of line 213, when it is
\* named by the demo object deploy_demo is about to save.
AtMostOneOwnedContainer ==
    /\ dpc \in {"load", "build", "launch"} => DOMAIN containers = {}
    /\ Cardinality(DOMAIN containers) <= 1
    /\ \A c \in DOMAIN containers :
          IF LaunchUnsaved
          THEN ddemo.container_id = Some(c) /\ RowContainer(db) # Some(c)
          ELSE RowContainer(db) = Some(c)

\* A redeploy of a demo with a running container is about to run the new one.
RedeployAboutToRun ==
    /\ dpc = "launch"
    /\ dpre # NoDemo
    /\ dpre.container_id # None
    /\ dpre.status = "running"
    /\ last.outcome = "built"
    /\ containers = << >>

\* The final record is a stream message that matches the success pattern and
\* the record before it is an aux record whose ID is 'sha256:<H>'.
DigestLog(response) ==
    /\ Len(response) >= 2
    /\ "stream" \in DOMAIN Final(response)
    /\ Matches(Strip(Final(response).stream))
    /\ "aux" \in DOMAIN Preceding(response)
    /\ "ID" \in DOMAIN Preceding(response).aux
    /\ HasPrefix(Preceding(response).aux.ID, Sha256Prefix)

\* The <ref> of 'Successfully built <ref>': the text after the second blank.
BuiltRef(line) == SubSeq(Strip(line), 20, Len(Strip(line)))

\* C12: after a build whose log ends with an aux record of ID 'sha256:<H>'
\* followed by a matching success message, the image_id of the demo object is
\* <H> (and not the <ref> of the message), the container is run from <H>, and
\* the deploy persists <H>; 'Successfully built ab12cd34' after
\* 'sha256:deadbeef00' gives 'deadbeef00'.
ImageIdIsAuxDigest ==
    ("log" \in dcalls /\ DigestLog(WrittenResponse)) =>
        /\ ddemo.image_id # None
        /\ Sha256Prefix \o ddemo.image_id[1] = Preceding(WrittenResponse).aux.ID
        /\ ddemo.image_id[1] # BuiltRef(Final(WrittenResponse).stream)
        /\ WrittenResponse = GoodLog => ddemo.image_id = Some(Digest)
        /\ \A c \in DOMAIN containers : containers[c].image = ddemo.image_id[1]
        /\ dpc = "idle" => db.image_id = ddemo.image_id

\* A deploy whose build streamed the example log has launched and returned.
DeployedExampleLog ==
    /\ last.op = "deploy"
    /\ last.outcome = "returned"
    /\ "run" \in dcalls
    /\ WrittenResponse = GoodLog
    /\ db.image_id = Some(Digest)
    /\ db.status = "running"
    /\ \E c \in DOMAIN containers : containers[c].image = Digest

\* C13: the log_id of a demo is drawn once, and every build log of the demo is
\* written under it: no second log_id is ever drawn, and all the log files
\* there are carry the log_id of the row.
LogIdAssignedOnce ==
    /\ nextLog <= 2
    /\ Cardinality(DOMAIN logs) <= 1
    /\ db # NoDemo => DOMAIN logs \subseteq {db.log_id}

\* C14: whenever deploy_demo is about to call the daemon (the build, the run),
\* the changes it has made to the demo are already saved: the persisted row
\* is the demo object, the new demo with status 'deploying' included.
ChangesSavedBeforeRuntimeCall ==
    dpc \in {"build", "launch"} => db = ddemo

\* The reclaim found the recorded container, and the daemon stayed reachable
\* through stop() and remove().
ReclaimCompletes ==
    /\ HasInstance(db)
    /\ GetContainer(containers, dockerUp, db.container_id) = "found"
    /\ dockerUp'

\* The row after a completed reclaim with the given target status.
ReclaimedTo(status) ==
    /\ db' = [db EXCEPT !.status = status, !.container_id = None,
                        !.image_id = None]
    /\ db'.port = db.port
    /\ db'.log_id = db.log_id
    /\ db.container_id[1] \notin DOMAIN containers'
    /\ last'.saved

\* C15: a reclaim that finds the recorded container and whose stop and
\* removal complete leaves no such container in the daemon, persists
\* status = target status ('empty' for the task, 'redeploying' inside deploy)
\* with container_id and image_id None and port and log_id as they were, and
\* returns the demo.
ReclaimCompletedResets ==
    [][/\ (Idle /\ last'.op = "reclaim" /\ ReclaimCompletes) =>
              (last'.outcome = "demo" /\ ReclaimedTo("empty"))
       /\ (Idle /\ dpc' = "load" /\ ReclaimCompletes) =>
              ReclaimedTo("redeploying")
       /\ (last'.op = "reclaim" /\ last'.outcome = "demo") =>
              ReclaimCompletes]_vars

\* A reclaim has removed the container of a demo that had a port and an image.
ReclaimedRunningDemo ==
    /\ last.op = "reclaim"
    /\ last.outcome = "demo"
    /\ last.saved
    /\ db.status = "empty"
    /\ db.container_id = None
    /\ db.image_id = None
    /\ db.port # None
    /\ containers = << >>

\* The reclaim has nothing to do: no row, no container_id, or the daemon
\* answers NotFound for the recorded container.
NothingToReclaim ==
    \/ db = NoDemo
    \/ db.container_id = None
    \/ GetContainer(containers, dockerUp, db.container_id) = "NotFound"

\* C16: a reclaim of a demo that is absent, has no container_id, or whose
\* recorded container the daemon does not find returns None without raising
\* and saves nothing: the row (a stale container_id and the earlier status
\* included) and the daemon's containers are what they were.  Inside deploy
\* the task goes on to the load with the row untouched.
ReclaimOfNothingIsNoOp ==
    [][/\ (Idle /\ last'.op = "reclaim" /\ NothingToReclaim) =>
              /\ last'.outcome = "absent"
              /\ ~last'.saved
              /\ db' = db
              /\ containers' = containers
       /\ (Idle /\ last'.op = "deploy" /\ dpc' # dpc /\ NothingToReclaim) =>
              /\ dpc' = "load"
              /\ ~last'.saved
              /\ db' = db
              /\ containers' = containers]_vars

\* A reclaim found the recorded container missing and left the row as it was.
ReclaimFoundNothing ==
    /\ last.op = "reclaim"
    /\ last.outcome = "absent"
    /\ ~last.saved
    /\ db # NoDemo
    /\ db.container_id # None
    /\ db.container_id[1] \notin DOMAIN containers
    /\ db.status = "running"

\* The run of line 193 has been called and has raised APIError.
RunFailed == "run" \in dcalls /\ ddemo.status = "error"

\* C17: when the build has succeeded and containers.run raises APIError, the
\* deploy returns without raising and the persisted row has status 'error',
\* the image_id of the image just built, the port allocated for this launch
\* or the one the row already had, and no new container: the daemon starts
\* none, and container_id is what the row held after the reclaim.
FailedRunKeepsImageAndPort ==
    [][/\ (dpc = "launch" /\ ~dockerUp /\ dpc' = "save") =>
              /\ ddemo'.status = "error"
              /\ ddemo'.image_id = ParseBuild(WrittenResponse).image_id
              /\ ddemo'.image_id # None
              /\ ddemo'.port # None
              /\ ddemo.port # None => ddemo'.port = ddemo.port
              /\ ddemo.port = None => "alloc" \in dcalls'
              /\ ddemo'.container_id = RowContainer(db)
              /\ containers' = containers
              /\ nextCid' = nextCid
       /\ (dpc = "save" /\ RunFailed /\ dpc' = "idle") =>
              /\ db' = ddemo
              /\ last'.outcome = "returned"
              /\ containers' = containers]_vars

\* A first deploy built its image, failed to run it, and has returned.
DeployFailedAtRun ==
    /\ last.op = "deploy"
    /\ last.outcome = "returned"
    /\ RunFailed
    /\ "alloc" \in dcalls
    /\ db.status = "error"
    /\ db.image_id = Some(Digest)
    /\ db.port # None
    /\ db.container_id = None
    /\ containers = << >>

DeployPersisted ==
    /\ dpc = "idle"
    /\ "run" \in dcalls
    /\ ddemo.status = "running"
    /\ db = ddemo
    /\ db.container_id[1] \in DOMAIN containers

\* The reconcile holds a copy of the row loaded before the deploy's reclaim:
\* it names the container the reclaim has removed.
StaleReconcile ==
    /\ rpc = "loaded"
    /\ dpre # NoDemo
    /\ rdemo.container_id = dpre.container_id
    /\ rdemo.container_id # None
    /\ rdemo.container_id # db.container_id

\* C19: once a deploy has run a new container and saved it, the update of a
\* reconcile that loaded the demo before the deploy's reclaim leaves the
\* persisted container_id naming the new container, and does not set the
\* status to 'empty'.
ReconcileKeepsDeployResult ==
    [][(DeployPersisted /\ StaleReconcile /\ rpc' = "idle") =>
           /\ db'.container_id = db.container_id
           /\ db'.status # "empty"]_vars

=============================================================================
